---- MODULE Spec2Model ----
(***************************************************************************)
(* A model of PeaksAndValleys/js/GLSkybox.js: the GLSkybox constructor     *)
(* (with initShader and initTexture), the image.onload callback and        *)
(* GLSkybox.prototype.render, run against one WebGL context that the host  *)
(* application shares with the skybox.                                     *)
(*                                                                         *)
(* The constructor creates its buffers on the context it is given as its   *)
(* argument, while initShader, initTexture, image.onload and render use    *)
(* the global gl; the two are the same object or two different contexts.   *)
(* A handle of a WebGL object is a record of its kind, the count of its    *)
(* creation and the context that made it.                                  *)
(* A 4x4 matrix is a 16-tuple in glMatrix's column-major layout, element   *)
(* [i] of the JavaScript array being element i+1 of the tuple; <<>> is a   *)
(* field that was never assigned.                                          *)
(***************************************************************************)
EXTENDS Integers, Sequences, FiniteSets

VARIABLES self, gl, other, image, ctor, lastRender, hostInits

vars == <<self, gl, other, image, ctor, lastRender, hostInits>>

(* Largest magnitude of a position component the host stores. *)
MaxCoord == 1

(* How many times the host calls initShader or initTexture itself. *)
MaxHostInits == 1

(* ------------------------------------------------------------------ *)
(* Data of the constructor                                            *)
(* ------------------------------------------------------------------ *)

(* GLSkybox.js:36-43 *)
vertices ==
  << -1, -1, -1,   1, -1, -1,   1,  1, -1,  -1,  1, -1,
      1, -1,  1,  -1, -1,  1,  -1,  1,  1,   1,  1,  1,
     -1,  1, -1,   1,  1, -1,   1,  1,  1,  -1,  1,  1,
     -1, -1,  1,   1, -1,  1,   1, -1, -1,  -1, -1, -1,
     -1, -1,  1,  -1, -1, -1,  -1,  1, -1,  -1,  1,  1,
      1, -1, -1,   1, -1,  1,   1,  1,  1,   1,  1, -1 >>

(* GLSkybox.js:57-64, in hundredths (0.25 is 25, 1.00 is 100). *)
coords ==
  << 25, 50,   50, 50,   50, 75,   25, 75,
     75, 50,  100, 50,  100, 75,   75, 75,
     25, 75,   50, 75,   50, 100,  25, 100,
     25, 25,   50, 25,   50, 50,   25, 50,
      0, 50,   25, 50,   25, 75,    0, 75,
     50, 50,   75, 50,   75, 75,   50, 75 >>

(* GLSkybox.js:67-74 *)
indices ==
  <<  0,  1,  2,   0,  2,  3,
      4,  5,  6,   4,  6,  7,
      8,  9, 10,   8, 10, 11,
     12, 13, 14,  12, 14, 15,
     16, 17, 18,  16, 18, 19,
     20, 21, 22,  20, 22, 23 >>

(* new Float32Array(xs): every element used here is a multiple of 1/4 of
   small magnitude, which a 32-bit float holds exactly. *)
Float32Array(xs) == [i \in 1..Len(xs) |-> xs[i]]

(* new Uint16Array(xs): each element modulo 2^16. *)
Uint16Array(xs) == [i \in 1..Len(xs) |-> xs[i] % 65536]

(* new Uint8Array(xs): each element modulo 2^8. *)
Uint8Array(xs) == [i \in 1..Len(xs) |-> xs[i] % 256]

(* ------------------------------------------------------------------ *)
(* glMatrix operations, as the calls in this file use them            *)
(* ------------------------------------------------------------------ *)

(* mat4.create(): a fresh 16-element Float32Array, all zero. *)
Mat4Create == [i \in 1..16 |-> 0]

(* mat4.identity(dest): overwrites all 16 elements of dest. *)
Mat4Identity(dest) == [i \in 1..16 |-> IF i \in {1, 6, 11, 16} THEN 1 ELSE 0]

(* mat4.translate(mat, vec) with no dest: updates mat[12..15] in place. *)
Mat4Translate(mat, vec) ==
  [i \in 1..16 |->
     IF i <= 12 THEN mat[i]
     ELSE mat[i - 12] * vec[1] + mat[i - 8] * vec[2] + mat[i - 4] * vec[3] + mat[i]]

(* mat4.multiply(mat, mat2, dest): the value written, mat * mat2, with
   dest[4c + r] the sum over k of mat[4k + r] * mat2[4c + k]. *)
Mat4Multiply(mat, mat2) ==
  [i \in 1..16 |->
     LET r == (i - 1) % 4
         c == (i - 1) \div 4
     IN  mat[r + 1] * mat2[4 * c + 1] + mat[4 + r + 1] * mat2[4 * c + 2]
         + mat[8 + r + 1] * mat2[4 * c + 3] + mat[12 + r + 1] * mat2[4 * c + 4]]

(* vec3.create([x, y, z]) *)
Vec3Create(v) == <<v[1], v[2], v[3]>>

(* ------------------------------------------------------------------ *)
(* The WebGL contexts                                                 *)
(* ------------------------------------------------------------------ *)

(* null or undefined *)
NullH == [kind |-> "null", id |-> 0, ctx |-> "none"]

(* Any object of another component, made on the global context. *)
ForeignH == [kind |-> "foreign", id |-> 0, ctx |-> "gl"]

NoTexture ==
  [created |-> FALSE, source |-> "none", width |-> 0, height |-> 0, rgba |-> <<>>,
   flipY |-> FALSE, mag |-> "LINEAR", min |-> "NEAREST_MIPMAP_LINEAR"]

NoBuffer == [created |-> FALSE, data |-> <<>>]

NoAttrib == [buffer |-> NullH, size |-> 0]

NoUniforms == [pMatrix |-> <<>>, mvMatrix |-> <<>>, sampler |-> 0]

(* A program object: whether linkProgram succeeded on it, and the
   values of its uniforms. *)
NoProgram == [linked |-> FALSE, uniforms |-> NoUniforms]

(* A context before the skybox has touched it. programs are the programs
   the skybox has created on it, in order of creation; texH and texture
   are the texture the skybox created last and its content (a texture it
   created earlier is no longer referenced and is not tracked). *)
FreshContext(name) ==
  [name |-> name, depthTest |-> FALSE, program |-> NullH, arrayBuffer |-> NullH,
   elementBuffer |-> NullH, activeUnit |-> 0,
   texBinding |-> [u \in 0..1 |-> NullH], unpackFlipY |-> FALSE,
   buffers |-> [k \in {"vbuf", "tbuf", "ibuf"} |-> NoBuffer],
   texH |-> NullH, texture |-> NoTexture,
   programs |-> <<>>,
   attribs |-> [position |-> NoAttrib, coords |-> NoAttrib]]

(* What the host and its other components may have done to the shared
   context between two turns of the skybox: the depth-test flag takes
   either value, and with foreign set they have left their own program,
   buffers and textures bound, texture unit 1 active and UNPACK_FLIP_Y
   off; without it the bindings are as the skybox left them. *)
EntryContexts ==
  {[depthTest |-> FALSE, foreign |-> TRUE], [depthTest |-> TRUE, foreign |-> FALSE]}

Enter(g, e) ==
  IF e.foreign
  THEN [g EXCEPT !.depthTest = e.depthTest, !.activeUnit = 1,
                 !.program = ForeignH, !.arrayBuffer = ForeignH,
                 !.elementBuffer = ForeignH,
                 !.texBinding = [u \in 0..1 |-> ForeignH],
                 !.unpackFlipY = FALSE]
  ELSE [g EXCEPT !.depthTest = e.depthTest]

(* A context accepts null and its own objects; given an object of another
   context a call raises INVALID_OPERATION and changes nothing. *)
Accepts(g, h) == h.ctx \in {"none", g.name}

(* createProgram: a new program, not linked, whose uniforms are unset. *)
GLCreateProgram(g) == [g EXCEPT !.programs = Append(@, NoProgram)]

(* The program of context g created last. *)
ProgramH(g) == [kind |-> "prog", id |-> Len(g.programs), ctx |-> g.name]

(* h is a program of g on which linkProgram succeeded. *)
Linked(g, h) == h.kind = "prog" /\ h.ctx = g.name /\ g.programs[h.id].linked

(* linkProgram raises no exception when the link fails: it records the
   outcome in the program's link status. *)
GLLinkProgram(g, h, ok) == [g EXCEPT !.programs[h.id].linked = ok]

(* useProgram accepts null and a linked program of this context; for any
   other it raises INVALID_OPERATION and changes nothing. *)
GLUseProgram(g, h) ==
  IF h = NullH \/ Linked(g, h) THEN [g EXCEPT !.program = h] ELSE g

GLBindBuffer(g, target, h) ==
  IF ~Accepts(g, h) THEN g
  ELSE IF target = "ARRAY_BUFFER" THEN [g EXCEPT !.arrayBuffer = h]
  ELSE [g EXCEPT !.elementBuffer = h]

(* bufferData writes the buffer bound to the target; with none of the
   skybox's buffers bound there, the skybox's buffers are untouched. *)
GLBufferData(g, target, data) ==
  LET h == IF target = "ARRAY_BUFFER" THEN g.arrayBuffer ELSE g.elementBuffer
  IN  IF h.kind \in DOMAIN g.buffers /\ h.ctx = g.name
      THEN [g EXCEPT !.buffers[h.kind] = [created |-> TRUE, data |-> data]]
      ELSE g

(* createBuffer at the place that creates buffer kind. *)
GLCreateBuffer(g, kind) ==
  [g EXCEPT !.buffers[kind] = [created |-> TRUE, data |-> <<>>]]

BufferH(g, kind) == [kind |-> kind, id |-> 1, ctx |-> g.name]

(* createTexture: a new, empty texture; it returns null (isNull) and
   creates nothing when the context is lost. *)
GLCreateTexture(g, isNull) ==
  IF isNull THEN g
  ELSE [g EXCEPT !.texH = [kind |-> "tex", id |-> g.texH.id + 1, ctx |-> g.name],
                 !.texture = [NoTexture EXCEPT !.created = TRUE]]

GLActiveTexture(g, u) == [g EXCEPT !.activeUnit = u]

(* bindTexture binds on the active texture unit. *)
GLBindTexture(g, h) ==
  IF Accepts(g, h) THEN [g EXCEPT !.texBinding[g.activeUnit] = h] ELSE g

(* The texture the skybox created last is bound on the active unit. *)
TextureBound(g) == g.texH # NullH /\ g.texBinding[g.activeUnit] = g.texH

(* texImage2D with a pixel array: writes the texture bound on the active
   unit; like every upload it honours UNPACK_FLIP_Y_WEBGL. *)
GLTexImage2DPixels(g, w, h, pixels) ==
  IF TextureBound(g)
  THEN [g EXCEPT !.texture.source = "pixels", !.texture.width = w,
                 !.texture.height = h, !.texture.rgba = pixels,
                 !.texture.flipY = g.unpackFlipY]
  ELSE g

(* texImage2D with an image element: the upload honours UNPACK_FLIP_Y_WEBGL. *)
GLTexImage2DImage(g) ==
  IF TextureBound(g)
  THEN [g EXCEPT !.texture.source = "image", !.texture.width = 0,
                 !.texture.height = 0, !.texture.rgba = <<>>,
                 !.texture.flipY = g.unpackFlipY]
  ELSE g

GLTexParameteri(g, pname, value) ==
  IF TextureBound(g)
  THEN IF pname = "TEXTURE_MAG_FILTER" THEN [g EXCEPT !.texture.mag = value]
       ELSE [g EXCEPT !.texture.min = value]
  ELSE g

(* A uniform upload through a location of program owner. The location is
   null when owner was not linked, and the upload is then ignored; a
   location of a program other than the one in use is rejected. *)
GLUniform(g, owner, name, value) ==
  IF Linked(g, owner) /\ g.program = owner
  THEN [g EXCEPT !.programs[owner.id].uniforms[name] = value]
  ELSE g

(* vertexAttribPointer captures the buffer bound to ARRAY_BUFFER. The
   attribute location is -1 when owner was not linked, and the call is
   then rejected. *)
GLVertexAttribPointer(g, owner, attrib, size) ==
  IF Linked(g, owner)
  THEN [g EXCEPT !.attribs[attrib] = [buffer |-> g.arrayBuffer, size |-> size]]
  ELSE g

(* What a drawElements call reads from the context: the element buffer,
   the program in use with its uniforms, and the texture on unit 0. *)
DrawRecord(g, count) ==
  [count |-> count, depthTest |-> g.depthTest, program |-> g.program,
   elementBuffer |-> g.elementBuffer, unit0 |-> g.texBinding[0],
   texture |-> IF g.texH # NullH /\ g.texBinding[0] = g.texH
               THEN g.texture ELSE NoTexture,
   uniforms |-> IF g.program.kind = "prog"
                THEN g.programs[g.program.id].uniforms ELSE NoUniforms,
   attribs |-> g.attribs]

(* ------------------------------------------------------------------ *)
(* The constructor, statement by statement                            *)
(* ------------------------------------------------------------------ *)

(* A buffer field of the instance: whether it has been assigned, the
   handle assigned (null when createBuffer returned null) and the two
   properties the constructor sets on the buffer object. *)
NoBufferField == [set |-> FALSE, h |-> NullH, itemSize |-> 0, numItems |-> 0]

(* The instance before the constructor body runs: no field assigned. *)
NoSelf ==
  [shader |-> NullH, texture |-> NullH, vBuffer |-> NoBufferField,
   tBuffer |-> NoBufferField, iBuffer |-> NoBufferField,
   mMatrix |-> <<>>, mvMatrix |-> <<>>, position |-> <<>>]

(* The image loads: how many load events are still to come, and whether
   an onload has run. *)
NoImage == [pending |-> 0, ever |-> FALSE]

(* Each operator below takes and returns
   st = [self, gl, other, image, arg, nullCreate, silent]: the instance,
   the global context, the other context, the image loads, which of the
   two contexts is the constructor's argument, the createBuffer call (if
   any) that returns null, and the calls that fail without raising an
   exception ("link": linkProgram; "texture": createTexture returns null). *)

(* The constructor's parameter gl, used by lines 77-95. *)
ParamCtx(st) == IF st.arg = "gl" THEN st.gl ELSE st.other

SetParamCtx(st, g) ==
  IF st.arg = "gl" THEN [st EXCEPT !.gl = g] ELSE [st EXCEPT !.other = g]

(* initShader: shader = gl.createProgram() *)
ShaderCreate(st) == [st EXCEPT !.gl = GLCreateProgram(st.gl)]

(* initShader, the two getShader calls to linkProgram, on the local shader *)
ShaderLink(st) ==
  [st EXCEPT !.gl = GLLinkProgram(st.gl, ProgramH(st.gl), "link" \notin st.silent)]

(* initShader: gl.useProgram(shader) *)
ShaderUse(st) == [st EXCEPT !.gl = GLUseProgram(st.gl, ProgramH(st.gl))]

(* initShader: attribute and uniform locations, then this.shader = shader *)
ShaderLocations(st) == [st EXCEPT !.self.shader = ProgramH(st.gl)]

(* initTexture: this.texture = gl.createTexture() *)
TextureCreate(st) ==
  LET isNull == "texture" \in st.silent
      g == GLCreateTexture(st.gl, isNull)
  IN  [st EXCEPT !.self.texture = IF isNull THEN NullH ELSE g.texH, !.gl = g]

(* Variant of TextureBind: the new texture is not bound before the upload. *)
TextureBindSkipped(st) == st

(* initTexture: gl.bindTexture(gl.TEXTURE_2D, this.texture) *)
TextureBind(st) == [st EXCEPT !.gl = GLBindTexture(st.gl, st.self.texture)]

(* initTexture: the 1x1 default colour *)
TexturePlaceholder(st) ==
  [st EXCEPT !.gl = GLTexImage2DPixels(st.gl, 1, 1, Uint8Array(<<0, 0, 200, 255>>))]

(* initTexture: new Image(), image.onload = ..., image.src = ... *)
ImageLoadStart(st) == [st EXCEPT !.image.pending = @ + 1]

(* this.<field> = gl.createBuffer() *)
BufferCreate(st, field, kind, isNull) ==
  IF isNull
  THEN [st EXCEPT !.self[field] = [NoBufferField EXCEPT !.set = TRUE]]
  ELSE [SetParamCtx(st, GLCreateBuffer(ParamCtx(st), kind))
          EXCEPT !.self[field] =
            [NoBufferField EXCEPT !.set = TRUE, !.h = BufferH(ParamCtx(st), kind)]]

(* gl.bindBuffer(target, this.<field>) *)
BufferBind(st, field, target) ==
  SetParamCtx(st, GLBindBuffer(ParamCtx(st), target, st.self[field].h))

(* gl.bufferData(target, data, gl.STATIC_DRAW) *)
BufferData(st, target, data) ==
  SetParamCtx(st, GLBufferData(ParamCtx(st), target, data))

(* this.<field>.itemSize = ...; this.<field>.numItems = ... *)
BufferProps(st, field, itemSize, numItems) ==
  [st EXCEPT !.self[field].itemSize = itemSize, !.self[field].numItems = numItems]

VBufferCreate(st) ==
  BufferCreate(st, "vBuffer", "vbuf", st.nullCreate = "VBufferCreate")

VBufferBind(st) == BufferBind(st, "vBuffer", "ARRAY_BUFFER")

VBufferData(st) == BufferData(st, "ARRAY_BUFFER", Float32Array(vertices))

VBufferProps(st) == BufferProps(st, "vBuffer", 3, 24)

TBufferCreate(st) ==
  BufferCreate(st, "tBuffer", "tbuf", st.nullCreate = "TBufferCreate")

(* Variant of TBufferBind: the coordinate buffer is not bound. *)
TBufferBindSkipped(st) == st

TBufferBind(st) == BufferBind(st, "tBuffer", "ARRAY_BUFFER")

TBufferData(st) == BufferData(st, "ARRAY_BUFFER", Float32Array(coords))

TBufferProps(st) == BufferProps(st, "tBuffer", 2, 24)

IBufferCreate(st) ==
  BufferCreate(st, "iBuffer", "ibuf", st.nullCreate = "IBufferCreate")

IBufferBind(st) == BufferBind(st, "iBuffer", "ELEMENT_ARRAY_BUFFER")

IBufferData(st) == BufferData(st, "ELEMENT_ARRAY_BUFFER", Uint16Array(indices))

IBufferProps(st) == BufferProps(st, "iBuffer", 1, 36)

MMatrixCreate(st) == [st EXCEPT !.self.mMatrix = Mat4Create]

MVMatrixCreate(st) == [st EXCEPT !.self.mvMatrix = Mat4Create]

PositionCreate(st) == [st EXCEPT !.self.position = Vec3Create(<<0, 0, 0>>)]

(* Variant of StmtOrder: the matrices and the position are set up first. *)
StmtOrderMatricesFirst ==
  << "MMatrixCreate", "MVMatrixCreate", "PositionCreate",
     "ShaderCreate", "ShaderLink", "ShaderUse", "ShaderLocations",
     "TextureCreate", "TextureBind", "TexturePlaceholder", "ImageLoadStart",
     "VBufferCreate", "VBufferBind", "VBufferData", "VBufferProps",
     "TBufferCreate", "TBufferBind", "TBufferData", "TBufferProps",
     "IBufferCreate", "IBufferBind", "IBufferData", "IBufferProps" >>

(* The statements of the try block in program order. Each is a place
   where an exception can leave the block, and none changes the state
   before its last call has returned: a throw inside it leaves the state
   the statement before it made. *)
StmtOrder ==
  << "ShaderCreate", "ShaderLink", "ShaderUse", "ShaderLocations",
     "TextureCreate", "TextureBind", "TexturePlaceholder", "ImageLoadStart",
     "VBufferCreate", "VBufferBind", "VBufferData", "VBufferProps",
     "TBufferCreate", "TBufferBind", "TBufferData", "TBufferProps",
     "IBufferCreate", "IBufferBind", "IBufferData", "IBufferProps",
     "MMatrixCreate", "MVMatrixCreate", "PositionCreate" >>

NStmts == Len(StmtOrder)

(* Setting itemSize on the buffer throws exactly when createBuffer returned
   null: the createBuffer call that did, for the statement that throws. *)
NullCreateFor(name) ==
  CASE name = "VBufferProps" -> "VBufferCreate"
    [] name = "TBufferProps" -> "TBufferCreate"
    [] name = "IBufferProps" -> "IBufferCreate"
    [] OTHER -> "none"

Stmt(name, st) ==
  CASE name = "ShaderCreate" -> ShaderCreate(st)
    [] name = "ShaderLink" -> ShaderLink(st)
    [] name = "ShaderUse" -> ShaderUse(st)
    [] name = "ShaderLocations" -> ShaderLocations(st)
    [] name = "TextureCreate" -> TextureCreate(st)
    [] name = "TextureBind" -> TextureBind(st)
    [] name = "TexturePlaceholder" -> TexturePlaceholder(st)
    [] name = "ImageLoadStart" -> ImageLoadStart(st)
    [] name = "VBufferCreate" -> VBufferCreate(st)
    [] name = "VBufferBind" -> VBufferBind(st)
    [] name = "VBufferData" -> VBufferData(st)
    [] name = "VBufferProps" -> VBufferProps(st)
    [] name = "TBufferCreate" -> TBufferCreate(st)
    [] name = "TBufferBind" -> TBufferBind(st)
    [] name = "TBufferData" -> TBufferData(st)
    [] name = "TBufferProps" -> TBufferProps(st)
    [] name = "IBufferCreate" -> IBufferCreate(st)
    [] name = "IBufferBind" -> IBufferBind(st)
    [] name = "IBufferData" -> IBufferData(st)
    [] name = "IBufferProps" -> IBufferProps(st)
    [] name = "MMatrixCreate" -> MMatrixCreate(st)
    [] name = "MVMatrixCreate" -> MVMatrixCreate(st)
    [] name = "PositionCreate" -> PositionCreate(st)

(* The state after the first n of the statements named in order. *)
RECURSIVE RunTo(_, _, _)
RunTo(order, n, st) ==
  IF n = 0 THEN st ELSE Stmt(order[n], RunTo(order, n - 1, st))

(* A run of the statements in order in which statement failAt throws
   (0: none does): the statements before it have run, it and the ones
   after it have not. *)
RunUntilThrow(order, failAt, st) ==
  IF failAt = 0 THEN RunTo(order, Len(order), st)
  ELSE RunTo(order, failAt - 1,
             [st EXCEPT !.nullCreate = NullCreateFor(order[failAt])])

(* Variant of TryBlock: the statement that throws is skipped and the
   ones after it run. *)
TryBlockResumed(failAt, st) == RunTo(StmtOrder, NStmts, st)

(* The try block of the constructor. *)
TryBlock(failAt, st) == RunUntilThrow(StmtOrder, failAt, st)

(* catch (err) { console.log("GLSkybox: " + err); }. When the caught value
   converts to a string and console.log works (loggable), one line is
   logged and the constructor returns normally; otherwise line 102 itself
   throws, nothing is logged and that exception leaves the constructor. *)
CatchErr(failAt, loggable) ==
  [logged |-> IF failAt # 0 /\ loggable THEN 1 ELSE 0,
   propagated |-> failAt # 0 /\ ~loggable]

(* The statements of GLSkybox.prototype.initShader. *)
InitShaderStmts == SubSeq(StmtOrder, 1, 4)

(* The statements of GLSkybox.prototype.initTexture. *)
InitTextureStmts == SubSeq(StmtOrder, 5, 8)

(* GLSkybox.prototype.initShader called on its own; an exception at
   statement failAt leaves the method and reaches the caller. *)
InitShaderCall(failAt, st) == RunUntilThrow(InitShaderStmts, failAt, st)

(* GLSkybox.prototype.initTexture called on its own, likewise. *)
InitTextureCall(failAt, st) == RunUntilThrow(InitTextureStmts, failAt, st)

(* ------------------------------------------------------------------ *)
(* image.onload                                                       *)
(* ------------------------------------------------------------------ *)

(* Variant of OnLoadBind: the callback relies on the binding it finds. *)
OnLoadBindSkipped(g, s) == g

(* gl.bindTexture(gl.TEXTURE_2D, _this.texture) *)
OnLoadBind(g, s) == GLBindTexture(g, s.texture)

(* Variant of OnLoadFlip: UNPACK_FLIP_Y_WEBGL is left as found. *)
OnLoadFlipSkipped(g) == g

(* gl.pixelStorei(gl.UNPACK_FLIP_Y_WEBGL, true) *)
OnLoadFlip(g) == [g EXCEPT !.unpackFlipY = TRUE]

(* gl.texImage2D(..., image) *)
OnLoadUpload(g) == GLTexImage2DImage(g)

(* the two gl.texParameteri calls *)
OnLoadFilters(g) ==
  GLTexParameteri(GLTexParameteri(g, "TEXTURE_MAG_FILTER", "LINEAR"),
                  "TEXTURE_MIN_FILTER", "LINEAR")

(* gl.bindTexture(gl.TEXTURE_2D, null) *)
OnLoadUnbind(g) == GLBindTexture(g, NullH)

(* The whole callback, on the context g it is entered with. *)
OnLoadCall(s, g) ==
  OnLoadUnbind(OnLoadFilters(OnLoadUpload(OnLoadFlip(OnLoadBind(g, s)))))

(* ------------------------------------------------------------------ *)
(* render(pMatrix, vMatrix)                                           *)
(* ------------------------------------------------------------------ *)

(* Variant of ResetModel: the model matrix is reset on the first call only. *)
ResetModelOnce(s) ==
  IF s.mMatrix = Mat4Create THEN [s EXCEPT !.mMatrix = Mat4Identity(s.mMatrix)] ELSE s

(* mat4.identity(this.mMatrix) *)
ResetModel(s) == [s EXCEPT !.mMatrix = Mat4Identity(s.mMatrix)]

(* mat4.translate(this.mMatrix, this.position) *)
TranslateModel(s) == [s EXCEPT !.mMatrix = Mat4Translate(s.mMatrix, s.position)]

(* gl.disable(gl.DEPTH_TEST) *)
DisableDepth(g) == [g EXCEPT !.depthTest = FALSE]

(* Variant of RestoreDepth: the depth test is not re-enabled. *)
RestoreDepthSkipped(g) == g

(* gl.enable(gl.DEPTH_TEST) *)
RestoreDepth(g) == [g EXCEPT !.depthTest = TRUE]

(* gl.useProgram(this.shader) *)
UseShader(g, s) == GLUseProgram(g, s.shader)

(* gl.activeTexture(gl.TEXTURE0); gl.bindTexture(gl.TEXTURE_2D, this.texture);
   gl.uniform1i(this.shader.samplerUniform, 0) *)
ActivateTexture(g, s) ==
  GLUniform(GLBindTexture(GLActiveTexture(g, 0), s.texture), s.shader, "sampler", 0)

(* gl.bindBuffer(gl.ELEMENT_ARRAY_BUFFER, this.iBuffer) *)
BindIndices(g, s) == GLBindBuffer(g, "ELEMENT_ARRAY_BUFFER", s.iBuffer.h)

(* gl.uniformMatrix4fv(this.shader.pMatrixUniform, false, pMatrix) *)
UploadProjection(g, s, pMatrix) == GLUniform(g, s.shader, "pMatrix", pMatrix)

(* Variant of ModelView: the operands in the other order. *)
ModelViewSwapped(vMatrix, mMatrix) == Mat4Multiply(mMatrix, vMatrix)

(* mat4.multiply(vMatrix, this.mMatrix, this.mvMatrix): the product written. *)
ModelView(vMatrix, mMatrix) == Mat4Multiply(vMatrix, mMatrix)

(* The object mat4.multiply(vMatrix, this.mMatrix, this.mvMatrix) writes
   the product into: dest, or its first operand when dest is undefined
   (if (!dest) { dest = mat; }). *)
MultiplyDest(s) == IF s.mvMatrix = <<>> THEN "vMatrix" ELSE "mvMatrix"

(* gl.uniformMatrix4fv(this.shader.mvMatrixUniform, false, this.mvMatrix) *)
UploadModelView(g, s) == GLUniform(g, s.shader, "mvMatrix", s.mvMatrix)

(* A call that an exception leaves at the given source line: the state is
   what the statements before that line made it, and nothing is drawn. *)
Thrown(s, g, line, p, v) ==
  [self |-> s, gl |-> g, threwAt |-> line, draws |-> <<>>, pOut |-> p, vOut |-> v]

(* The whole of render on instance s and context g: the instance and the
   context afterwards, the line an exception left it at (0: it returned),
   the drawElements calls it issued, and the caller's two matrices as the
   call leaves them. Reading a property of an undefined or null field and
   indexing an undefined matrix or vector raise a TypeError. *)
RenderCall(s0, g0, pMatrix, vMatrix) ==
  IF s0.mMatrix = <<>> THEN Thrown(s0, g0, 167, pMatrix, vMatrix)
  ELSE LET s1 == ResetModel(s0) IN
  IF s1.position = <<>> THEN Thrown(s1, g0, 168, pMatrix, vMatrix)
  ELSE LET s2 == TranslateModel(s1)
           g1 == UseShader(DisableDepth(g0), s2)
           g2 == GLBindBuffer(g1, "ARRAY_BUFFER", s2.vBuffer.h)
       IN
  IF s2.shader = NullH \/ s2.vBuffer.h = NullH
  THEN Thrown(s2, g2, 177, pMatrix, vMatrix)
  ELSE LET g3 == GLVertexAttribPointer(g2, s2.shader, "position", s2.vBuffer.itemSize)
           g4 == GLBindBuffer(g3, "ARRAY_BUFFER", s2.tBuffer.h)
       IN
  IF s2.tBuffer.h = NullH THEN Thrown(s2, g4, 180, pMatrix, vMatrix)
  ELSE LET g5 == GLVertexAttribPointer(g4, s2.shader, "coords", s2.tBuffer.itemSize)
           g6 == UploadProjection(BindIndices(ActivateTexture(g5, s2), s2), s2, pMatrix)
           mv == ModelView(vMatrix, s2.mMatrix)
           dest == MultiplyDest(s2)
           v1 == IF dest = "vMatrix" THEN mv ELSE vMatrix
           s3 == IF dest = "mvMatrix" THEN [s2 EXCEPT !.mvMatrix = mv] ELSE s2
       IN
  (* uniformMatrix4fv rejects an undefined value. *)
  IF s3.mvMatrix = <<>> THEN Thrown(s3, g6, 195, pMatrix, v1)
  ELSE LET g7 == UploadModelView(g6, s3) IN
  IF s3.iBuffer.h = NullH THEN Thrown(s3, g7, 198, pMatrix, v1)
  ELSE [self |-> s3, gl |-> RestoreDepth(g7), threwAt |-> 0,
        draws |-> <<DrawRecord(g7, s3.iBuffer.numItems)>>,
        pOut |-> pMatrix, vOut |-> v1]

(* ------------------------------------------------------------------ *)
(* Inputs                                                             *)
(* ------------------------------------------------------------------ *)

Identity4 == <<1, 0, 0, 0,  0, 1, 0, 0,  0, 0, 1, 0,  0, 0, 0, 1>>

(* A quarter turn about the x axis followed by a camera offset. *)
ViewMoved == <<1, 0, 0, 0,  0, 0, 1, 0,  0, -1, 0, 0,  0, -1, 2, 1>>

Views == {Identity4, ViewMoved}

(* A perspective-shaped projection with integer entries. *)
ProjPersp == <<2, 0, 0, 0,  0, 2, 0, 0,  0, 0, -1, -1,  0, 0, -2, 0>>

Projections == {Identity4, ProjPersp}

(* The positions the host stores. *)
Positions == {<<x, -x, 2 * x>> : x \in 0..MaxCoord}

(* The two contexts the host can hand to the constructor. *)
ContextArgs == {"gl", "other"}

NoRender ==
  [called |-> FALSE, threwAt |-> 0, draws |-> <<>>,
   pIn |-> <<>>, vIn |-> <<>>, posIn |-> <<>>, pOut |-> <<>>, vOut |-> <<>>,
   everAtEntry |-> FALSE, depthAtReturn |-> FALSE,
   repeat |-> FALSE]

(* ------------------------------------------------------------------ *)
(* The state machine                                                  *)
(* ------------------------------------------------------------------ *)

Init ==
  /\ self = NoSelf
  /\ gl \in {Enter(FreshContext("gl"), e) : e \in EntryContexts}
  /\ other = FreshContext("other")
  /\ image = NoImage
  /\ ctor = [done |-> FALSE, failAt |-> 0, silent |-> {}, loggable |-> TRUE,
             logged |-> 0, propagated |-> FALSE]
  /\ lastRender = NoRender
  /\ hostInits = 0

(* The calls of the setup that can fail without raising an exception
   (linkProgram at line 118, createTexture at line 144), and the
   combinations of them taken as inputs: none, either, or both, as when
   the context is lost before the first of them. *)
SilentFailures == SUBSET {"link", "texture"}

(* A call fails only if it is made: linkProgram belongs to statement 2 of
   initShader and createTexture is statement 1 of initTexture, the first
   of which is statement first of the run in which failAt throws. *)
Made(silent, failAt, firstShader, firstTexture) ==
  /\ "link" \in silent => (failAt = 0 \/ failAt > firstShader + 1)
  /\ "texture" \in silent => (failAt = 0 \/ failAt > firstTexture)

(* The instance, the contexts and the image loads as one record, for a
   call made with the global context in state g. The methods use the
   global gl only; arg is what the constructor is given. *)
Here(g, arg, silent) ==
  [self |-> self, gl |-> g, other |-> other, image |-> image,
   arg |-> arg, nullCreate |-> "none", silent |-> silent]

(* new GLSkybox(arg): statement failAt of the try block throws (0: none),
   the catch block can or cannot log what it caught, and the calls in
   silent fail without an exception. *)
Construct(failAt, arg, loggable, silent) ==
  /\ ~ctor.done
  /\ failAt = 0 => loggable
  /\ Made(silent, failAt, 1, 5)
  /\ LET st == TryBlock(failAt, Here(gl, arg, silent))
         c == CatchErr(failAt, loggable)
     IN  /\ self' = st.self
         /\ gl' = st.gl
         /\ other' = st.other
         /\ image' = st.image
         /\ ctor' = [done |-> TRUE, failAt |-> failAt, silent |-> silent,
                     loggable |-> loggable,
                     logged |-> c.logged, propagated |-> c.propagated]
  /\ UNCHANGED <<lastRender, hostInits>>

(* A load event of an image: the callback runs once per image, as a turn
   of its own. *)
OnLoad(e) ==
  /\ image.pending > 0
  /\ gl' = OnLoadCall(self, Enter(gl, e))
  /\ image' = [pending |-> image.pending - 1, ever |-> TRUE]
  /\ lastRender' = NoRender
  /\ UNCHANGED <<self, other, ctor, hostInits>>

(* The host holds an instance when the constructor has returned one. *)
HasInstance == ctor.done /\ ~ctor.propagated

(* skybox.render(pMatrix, vMatrix) from the host's frame loop. lastRender
   records the call while it is the latest turn (any other turn clears
   it): its arguments and the stored position on entry, the outcome,
   whether an onload had run, and
   whether the turn before it was a render with the same view matrix and
   position (repeat). *)
Render(pMatrix, vMatrix, e) ==
  /\ HasInstance
  /\ LET r == RenderCall(self, Enter(gl, e), pMatrix, vMatrix)
     IN  /\ self' = r.self
         /\ gl' = r.gl
         /\ lastRender' =
              [called |-> TRUE, threwAt |-> r.threwAt, draws |-> r.draws,
               pIn |-> pMatrix, vIn |-> vMatrix,
               posIn |-> self.position, pOut |-> r.pOut, vOut |-> r.vOut,
               everAtEntry |-> image.ever,
               depthAtReturn |-> r.gl.depthTest,
               repeat |-> /\ lastRender.called
                          /\ lastRender.vIn = vMatrix
                          /\ lastRender.posIn = self.position]
  /\ UNCHANGED <<other, image, ctor, hostInits>>

(* The host moves the skybox by writing the components of the position
   vector in place, which needs the vector to exist. *)
SetPosition(pos) ==
  /\ HasInstance
  /\ self.position # <<>>
  /\ self' = [self EXCEPT !.position = pos]
  /\ lastRender' = NoRender
  /\ UNCHANGED <<gl, other, image, ctor, hostInits>>

(* The host calls the public method skybox.initTexture() itself: a new
   texture holding the placeholder replaces this.texture and one more
   image load starts. An exception at statement failAt of the method
   (0: none) reaches the host, with the statements before it done. *)
HostInitTexture(e, failAt, silent) ==
  /\ HasInstance
  /\ hostInits < MaxHostInits
  /\ "link" \notin silent
  /\ Made(silent, failAt, 0, 1)
  /\ LET st == InitTextureCall(failAt, Here(Enter(gl, e), "gl", silent))
     IN  /\ self' = st.self
         /\ gl' = st.gl
         /\ image' = st.image
  /\ hostInits' = hostInits + 1
  /\ lastRender' = NoRender
  /\ UNCHANGED <<other, ctor>>

(* The host calls the public method skybox.initShader() itself: a new
   program replaces this.shader. An exception at statement failAt of the
   method (0: none) reaches the host, with the statements before it done. *)
HostInitShader(e, failAt, silent) ==
  /\ HasInstance
  /\ hostInits < MaxHostInits
  /\ "texture" \notin silent
  /\ Made(silent, failAt, 1, 0)
  /\ LET st == InitShaderCall(failAt, Here(Enter(gl, e), "gl", silent))
     IN  /\ self' = st.self
         /\ gl' = st.gl
  /\ hostInits' = hostInits + 1
  /\ lastRender' = NoRender
  /\ UNCHANGED <<other, image, ctor>>

Next ==
  \/ \E failAt \in 0..NStmts, arg \in ContextArgs, loggable \in BOOLEAN,
        silent \in SilentFailures :
       Construct(failAt, arg, loggable, silent)
  \/ \E e \in EntryContexts : OnLoad(e)
  \/ \E p \in Projections, v \in Views, e \in EntryContexts : Render(p, v, e)
  \/ \E pos \in Positions : SetPosition(pos)
  \/ \E e \in EntryContexts, failAt \in 0..Len(InitTextureStmts),
        silent \in SilentFailures :
       HostInitTexture(e, failAt, silent)
  \/ \E e \in EntryContexts, failAt \in 0..Len(InitShaderStmts),
        silent \in SilentFailures :
       HostInitShader(e, failAt, silent)

Spec == Init /\ [][Next]_vars

(* ------------------------------------------------------------------ *)
(* Properties                                                         *)
(* ------------------------------------------------------------------ *)

(* The constructor returned without any statement having thrown. *)
ReturnedNormally == ctor.done /\ ctor.failAt = 0

(* A successful construction: no statement threw and no call failed. *)
Succeeded == ReturnedNormally /\ ctor.silent = {}

Failed == ctor.done /\ ctor.failAt > 0

(* this.shader is a program that was linked. *)
ShaderLinked == Linked(gl, self.shader)

(* this.texture is the texture the constructor created: initTexture has
   not replaced it since. *)
OwnTexture ==
  /\ ReturnedNormally /\ "texture" \notin ctor.silent
  /\ self.texture = [kind |-> "tex", id |-> 1, ctx |-> "gl"]

Rendered == lastRender.called

Returned == lastRender.called /\ lastRender.threwAt = 0

OneDraw == Len(lastRender.draws) = 1

Draw == lastRender.draws[1]

Blue == <<0, 0, 200, 255>>

IsPlaceholder(t) ==
  t.source = "pixels" /\ t.width = 1 /\ t.height = 1 /\ t.rgba = Blue

(* Element (row r, column c), both from 0, of a column-major matrix. *)
Elem(m, r, c) == m[4 * c + r + 1]

(* The matrix product a x b. *)
MatProduct(a, b) ==
  [i \in 1..16 |->
     LET r == (i - 1) % 4
         c == (i - 1) \div 4
     IN  Elem(a, r, 0) * Elem(b, 0, c) + Elem(a, r, 1) * Elem(b, 1, c)
         + Elem(a, r, 2) * Elem(b, 2, c) + Elem(a, r, 3) * Elem(b, 3, c)]

(* The pure translation by p. *)
TranslationMatrix(p) ==
  <<1, 0, 0, 0,  0, 1, 0, 0,  0, 0, 1, 0,  p[1], p[2], p[3], 1>>

(* The content of the buffer of a kind, in whichever of the two contexts
   the constructor created it. *)
Stored(kind) ==
  IF other.buffers[kind].created THEN other.buffers[kind].data
  ELSE gl.buffers[kind].data

(* The stage of this.texture: 0 none or empty, 1 pixels, 2 image. *)
TextureStage ==
  IF self.texture = NullH THEN 0
  ELSE CASE gl.texture.source = "none" -> 0
         [] gl.texture.source = "pixels" -> 1
         [] gl.texture.source = "image" -> 2

(* C1: a render call on a skybox whose constructor returned normally
   leaves the depth test enabled when it returns, whatever the flag was
   on entry. *)
C1_DepthTestRestored ==
  (ReturnedNormally /\ Returned) => lastRender.depthAtReturn

C1_Witness ==
  Succeeded /\ Returned /\ lastRender.depthAtReturn /\ OneDraw

(* C2: from a successful construction until an onload runs the texture
   the constructor created is the 1x1 opaque-blue placeholder, and every
   render call in that interval returns normally (no error is raised)
   having drawn with it. *)
C2_PlaceholderUntilLoad ==
  OwnTexture =>
     /\ ~image.ever => (image.pending > 0 /\ IsPlaceholder(gl.texture))
     /\ (Rendered /\ ~lastRender.everAtEntry) =>
          /\ Returned
          /\ OneDraw
          /\ Draw.unit0 = self.texture
          /\ IsPlaceholder(Draw.texture)

C2_Witness ==
  OwnTexture /\ ~image.ever /\ image.pending = 1 /\ Returned /\ OneDraw
  /\ IsPlaceholder(Draw.texture)

(* The render call drew with the loaded image. *)
DrewLoaded ==
  OneDraw /\ Draw.unit0 = self.texture /\ Draw.texture.source = "image"

(* A step that is not a call of initShader or initTexture by the host
   does not move the texture to an earlier stage. *)
C3_Forward ==
  hostInits' = hostInits =>
     (TextureStage' >= TextureStage /\ (image.ever => image'.ever))

(* C3 as stated: after a successful construction, once an onload has run
   every later render call draws with the loaded image, and render calls
   and callbacks never move the texture to an earlier stage. *)
C3_Original ==
  []((Succeeded /\ Rendered /\ lastRender.everAtEntry) => DrewLoaded)
  /\ [][C3_Forward]_vars

(* C3, amended: once an onload has run, every later render call draws
   with the loaded image as long as the host has not called initTexture
   again, which replaces the texture; render calls and onload callbacks
   never move the texture to an earlier stage. *)
C3_LoadedStays ==
  [](OwnTexture =>
       /\ (Rendered /\ lastRender.everAtEntry) => DrewLoaded
       /\ image.ever => TextureStage = 2)
  /\ [][C3_Forward]_vars

C3_Witness ==
  Succeeded /\ OwnTexture /\ Rendered /\ lastRender.everAtEntry /\ DrewLoaded
  /\ hostInits = 1

(* What statements c to c+3 of the try block (create, bind, upload and
   properties of one buffer) have left when statement k threw. The upload
   has stored the data unless the throw is that of the properties, which
   happens when no buffer was created. *)
BufferAsLeft(field, kind, c, k) ==
  /\ self[field].set <=> (k > c)
  /\ (Stored(kind) # <<>>) <=> (k > c + 3)
  /\ (self[field].numItems # 0) <=> (k > c + 3)

(* C4: when statement failAt of the constructor throws an error that
   converts to a string, as the errors of the setup calls do, the error
   is logged once and not propagated, and exactly the fields assigned
   before that statement exist; the statements from it on have had no
   effect. *)
C4_PartialConstruction ==
  (Failed /\ ctor.loggable /\ hostInits = 0) =>
     LET k == ctor.failAt IN
     /\ ctor.logged = 1
     /\ ~ctor.propagated
     /\ (Len(gl.programs) > 0) <=> (k > 1)
     /\ (self.shader # NullH) <=> (k > 4)
     /\ "texture" \notin ctor.silent =>
          /\ (self.texture # NullH) <=> (k > 5)
          /\ (gl.texture.source # "none") <=> (k > 7)
     /\ (image.pending > 0 \/ image.ever) <=> (k > 8)
     /\ BufferAsLeft("vBuffer", "vbuf", 9, k)
     /\ BufferAsLeft("tBuffer", "tbuf", 13, k)
     /\ BufferAsLeft("iBuffer", "ibuf", 17, k)
     /\ (self.mMatrix # <<>>) <=> (k > 21)
     /\ (self.mvMatrix # <<>>) <=> (k > 22)
     /\ self.position = <<>>

C4_Witness ==
  /\ Failed /\ ctor.loggable /\ hostInits = 0 /\ ctor.failAt = 13
  /\ ctor.logged = 1 /\ ~ctor.propagated
  /\ self.vBuffer.set /\ self.vBuffer.numItems = 24 /\ ~self.tBuffer.set
  /\ self.mMatrix = <<>>

(* C5: every render call on a successfully constructed skybox, with its
   program linked and its texture created, issues exactly one draw of 36
   indices, with the depth test off, the skybox's program in use, its
   index buffer bound, its texture on unit 0 and the caller's projection
   matrix uploaded. *)
C5_OneDrawWithOwnState ==
  (ReturnedNormally /\ ShaderLinked /\ self.texture # NullH /\ Rendered) =>
     /\ Returned
     /\ OneDraw
     /\ Draw.count = 36
     /\ ~Draw.depthTest
     /\ Draw.program = self.shader
     /\ Draw.elementBuffer # NullH /\ Draw.elementBuffer = self.iBuffer.h
     /\ Draw.unit0 = self.texture
     /\ Draw.uniforms.pMatrix = lastRender.pIn

(* C6: the model-view matrix uploaded to the skybox's linked program is
   view x translation(position); with an identity view it is the
   translation itself, and the identity for position (0,0,0). *)
C6_ModelViewIsViewTimesModel ==
  (ReturnedNormally /\ ShaderLinked /\ Rendered) =>
     /\ OneDraw
     /\ Draw.program = self.shader
     /\ self.mvMatrix = Draw.uniforms.mvMatrix
     /\ Draw.uniforms.mvMatrix =
          MatProduct(lastRender.vIn, TranslationMatrix(lastRender.posIn))
     /\ lastRender.vIn = Identity4 =>
          Draw.uniforms.mvMatrix = TranslationMatrix(lastRender.posIn)
     /\ (lastRender.vIn = Identity4 /\ lastRender.posIn = <<0, 0, 0>>) =>
          Draw.uniforms.mvMatrix = Identity4

C6_Witness ==
  Succeeded /\ ShaderLinked /\ Rendered /\ OneDraw /\ lastRender.vIn = ViewMoved
  /\ lastRender.posIn = <<1, -1, 2>>
  /\ Draw.uniforms.mvMatrix = MatProduct(ViewMoved, TranslationMatrix(<<1, -1, 2>>))

C7_Mesh ==
  ReturnedNormally =>
     /\ self.vBuffer.h.kind = "vbuf" /\ self.vBuffer.itemSize = 3
     /\ self.vBuffer.numItems = 24
     /\ self.tBuffer.h.kind = "tbuf" /\ self.tBuffer.itemSize = 2
     /\ self.tBuffer.numItems = 24
     /\ self.iBuffer.h.kind = "ibuf" /\ self.iBuffer.itemSize = 1
     /\ self.iBuffer.numItems = 36
     /\ Len(Stored("vbuf")) = 72
     /\ Len(Stored("vbuf")) = self.vBuffer.numItems * self.vBuffer.itemSize
     /\ Len(Stored("tbuf")) = self.tBuffer.numItems * self.tBuffer.itemSize
     /\ Len(Stored("ibuf")) = self.iBuffer.numItems
     /\ \A i \in 1..Len(Stored("ibuf")) : Stored("ibuf")[i] \in 0..23

C7_Fixed ==
  ReturnedNormally =>
     /\ gl'.buffers = gl.buffers
     /\ other'.buffers = other.buffers
     /\ self'.vBuffer = self.vBuffer
     /\ self'.tBuffer = self.tBuffer
     /\ self'.iBuffer = self.iBuffer

(* C7: after a successful construction the buffers hold 24 positions, 24
   texture coordinates and 36 indices in 0..23, numItems agree with the
   data, and nothing later changes the buffers or their handles. *)
C7_MeshFixed == []C7_Mesh /\ [][C7_Fixed]_vars

C7_Witness ==
  Succeeded /\ Returned /\ image.ever /\ Len(Stored("ibuf")) = 36
  /\ Len(Stored("vbuf")) = 72

C8_Rebuilt ==
  (ReturnedNormally /\ lastRender'.called) =>
     /\ self'.position = self.position
     /\ self'.mMatrix = TranslationMatrix(self.position)
     /\ lastRender'.pOut = lastRender'.pIn
     /\ lastRender'.vOut = lastRender'.vIn
     /\ lastRender'.repeat =>
          /\ self'.mvMatrix = self.mvMatrix
          /\ ShaderLinked =>
               lastRender'.draws[1].uniforms.mvMatrix
                 = lastRender.draws[1].uniforms.mvMatrix

(* C8: each render call rebuilds the model matrix from the identity, so a
   call with the same view matrix and position as the call before computes
   the same model-view matrix and, the program being linked, uploads the
   same; the stored position and the caller's two matrices are left as
   they were. *)
C8_NoAccumulation == [][C8_Rebuilt]_vars

C8_Witness ==
  Succeeded /\ Returned /\ lastRender.repeat /\ lastRender.posIn = <<1, -1, 2>>
  /\ self.mMatrix = TranslationMatrix(<<1, -1, 2>>)

(* C9: every draw with the texture the constructor created samples either
   the untouched placeholder or the loaded image uploaded flipped with
   both filters linear, never a texture in between. *)
C9_NoHalfLoadedTexture ==
  (OwnTexture /\ Rendered) =>
     /\ OneDraw
     /\ \/ /\ IsPlaceholder(Draw.texture)
           /\ Draw.texture.mag = NoTexture.mag
           /\ Draw.texture.min = NoTexture.min
           /\ ~lastRender.everAtEntry
        \/ /\ Draw.texture.source = "image"
           /\ Draw.texture.flipY
           /\ Draw.texture.mag = "LINEAR"
           /\ Draw.texture.min = "LINEAR"

C9_Witness ==
  OwnTexture /\ Rendered /\ OneDraw /\ Draw.texture.source = "image"
  /\ Draw.texture.flipY /\ Draw.texture.min = "LINEAR"

(* C10: after a construction in which a statement threw, one of shader,
   buffers, model matrix or position is missing, every render call raises
   an error and draws nothing, and the constructor has started the image
   load only if initShader succeeded. *)
C10_FailedNeverDraws ==
  Failed =>
     /\ \/ self.shader = NullH
        \/ self.vBuffer.h = NullH \/ self.tBuffer.h = NullH
        \/ self.iBuffer.h = NullH
        \/ self.mMatrix = <<>> \/ self.position = <<>>
     /\ Rendered => (lastRender.threwAt # 0 /\ lastRender.draws = <<>>)
     /\ (hostInits = 0 /\ (image.pending > 0 \/ image.ever)) => self.shader # NullH

C10_Witness ==
  Failed /\ ctor.failAt = 23 /\ Rendered /\ lastRender.threwAt = 168
  /\ lastRender.draws = <<>> /\ image.ever

====
